---- MODULE Spec2Model ----
(***************************************************************************)
(* Rolling restart of a fleet of instances (bin/lib/cli/instances.py):     *)
(* the "instances restart" command, restart_one_instance and the wait      *)
(* loops, together with the cloud state they read and request changes of.  *)
(***************************************************************************)
EXTENDS Integers, Sequences, FiniteSets, TLC

\* ---------------------------------------------------------------- bounds
NumInstances == 2   \* instances registered with the load balancer
BaseMin      == 1   \* MinSize of every autoscaling group at the start
MaxEvents    == 1   \* per run: calls that raise, instances that stop and
                    \* changes made by the external autoscaler
MaxPolls     == 1   \* unsuccessful health probes counted per instance

Instances == 1..NumInstances
Groups    == {"asg-1", "asg-2"}
NoGroup   == "none"

\* Exception classes a collaborator may raise: RuntimeError, or a class
\* that is no RuntimeError (subprocess.CalledProcessError, a cloud-API
\* client error).
ExcClasses == {"RuntimeError", "OtherError"}

NoInstance == 0

\* The locals of restart_one_instance outside a call of it.
NoGroupRead == [DesiredCapacity |-> 0, MinSize |-> 0]

\* --motd: the default of the option (any message stands for it) and the
\* empty message.
DefaultMotd == "Site is being updated"

MotdOptions == {DefaultMotd, ""}

\* The commands executed on all instances: systemctl start and systemctl
\* stop of the service, and any other command (the argument of exec_all).
RemoteCmds == {"systemctl_start", "systemctl_stop", "other"}

NoCmd == "none"

\* No probe of the health endpoint has been made.
NoResponse == [raised |-> FALSE, body |-> <<"none">>]

VARIABLES
    pc,               \* position of the control thread
    cfg,              \* the environment configuration (cfg.env) and its lookups
    command,          \* the command invoked: "restart" or "restart_one"
    option_motd,      \* the value of the option --motd of "restart"
    remote_cmd,       \* the command "exec_all", "start" or "stop" executes
    motd,             \* the update message (set_update_message)
    to_restart,       \* instances_restart: to_restart
    idx,              \* instances_restart: index of the loop (1-based)
    modified_groups,  \* instances_restart: modified_groups, in insertion order
    failed,           \* instances_restart: failed
    as_group,         \* restart_one_instance: as_group
    adjustment_required, \* restart_one_instance: adjustment_required
    rpos,             \* position of the loop over modified_groups.items()
    exitStatus,       \* process exit status, -1 while the command runs
    asg,              \* cloud: group -> [DesiredCapacity, MinSize]
    inst,             \* cloud: instance -> its group, lifecycle, protection, ...
    calls,            \* mutating requests issued so far, in order
    outcome,          \* per-instance result of the run
    restores,         \* number of times the loop over modified_groups began
    asg0,             \* the groups as they were before the run
    faults,           \* raised calls and stopped instances so far
    scalings,         \* external autoscaler changes so far
    polls,            \* unsuccessful health probes of the current instance
    response          \* wait_for_healthok: what the last probe got

locals == <<as_group, adjustment_required>>

probe == <<polls, response>>

args == <<command, option_motd, remote_cmd>>

vars == <<pc, cfg, args, motd, to_restart, idx, modified_groups, failed,
          locals, rpos, exitStatus, asg, inst, calls, outcome,
          restores, asg0, faults, scalings, probe>>

\* ------------------------------------------------------------- helpers
RECURSIVE SortedSeq(_)
SortedSeq(S) ==
    IF S = {} THEN <<>>
    ELSE LET m == CHOOSE x \in S : \A y \in S : x <= y
         IN  <<m>> \o SortedSeq(S \ {m})

\* dict[k] = v on a dict kept as a sequence of items in insertion order:
\* an existing key keeps its place and takes the new value.
DictSet(d, k, v) ==
    IF \E j \in 1..Len(d) : d[j].k = k
    THEN [j \in 1..Len(d) |-> IF d[j].k = k THEN [k |-> k, v |-> v] ELSE d[j]]
    ELSE Append(d, [k |-> k, v |-> v])

DictKeys(d) == {d[j].k : j \in 1..Len(d)}
DictGet(d, k) == LET j == CHOOSE j \in 1..Len(d) : d[j].k = k IN d[j].v

Call(op, i, g, flag, n) == [op |-> op, inst |-> i, group |-> g, flag |-> flag, n |-> n]

\* ------------------------------------------------------------ topology
Colors == {"blue", "green"}

Arns == {"legacy"} \cup Colors

OtherColor(c) == IF c = "blue" THEN "green" ELSE "blue"

\* Instance.elb_instances(arn): the instances registered with a target
\* group, whatever their health. The configuration names the target groups;
\* c.targets is what the load balancer holds for each of them.
Registered(c, arn) == c.targets[arn]

elb_instances(c, arn) == SortedSeq(Registered(c, arn))

\* Faulty variant: a failed lookup falls through to the legacy target group.
get_instances_fall_through(c) ==
    IF c.supports_blue_green /\ c.markerOk /\ c.tgOk
    THEN [raised |-> FALSE, instances |-> elb_instances(c, c.active)]
    ELSE [raised |-> FALSE, instances |-> elb_instances(c, "legacy")]

\* Faulty variant: the target group of the inactive color is read.
get_instances_inactive_color(c) ==
    IF c.supports_blue_green
    THEN IF c.markerOk /\ c.tgOk
         THEN [raised |-> FALSE, instances |-> elb_instances(c, OtherColor(c.active))]
         ELSE [raised |-> TRUE, instances |-> <<>>]
    ELSE [raised |-> FALSE, instances |-> elb_instances(c, "legacy")]

\* get_instances_for_environment: the instances, or the RuntimeError that
\* wraps whatever the blue/green lookups raised.
get_instances_for_environment(c) ==
    IF c.supports_blue_green
    THEN IF c.markerOk /\ c.tgOk
         THEN [raised |-> FALSE, instances |-> elb_instances(c, c.active)]
         ELSE [raised |-> TRUE, instances |-> <<>>]
    ELSE [raised |-> FALSE, instances |-> elb_instances(c, "legacy")]

pick_instances(c) == get_instances_for_environment(c)

\* The fleet of the restart runs: the sole target group of a legacy
\* environment holds every instance; of a blue/green environment, blue holds
\* the odd and green the even ones.
FleetTargets ==
    [a \in Arns |->
        CASE a = "legacy" -> Instances
          [] a = "blue"   -> {i \in Instances : i % 2 = 1}
          [] a = "green"  -> {i \in Instances : i % 2 = 0}]

\* Any registration of the instances with the target groups.
LegacyTargets ==
    {[a \in Arns |-> IF a = "legacy" THEN l ELSE {}] : l \in SUBSET Instances}

BlueGreenTargets ==
    {[a \in Arns |-> CASE a = "legacy" -> {}
                       [] a = "blue"   -> b
                       [] a = "green"  -> g] :
        b \in SUBSET Instances, g \in SUBSET Instances}

\* cfg.env: Environment.PROD or another one. Only instances_stop reads it;
\* the configurations of the restarts are those of PROD.
Environments == {"prod", "staging"}

ConfigsOver(legacy, bluegreen) ==
    {[env |-> "prod", supports_blue_green |-> FALSE, active |-> "blue",
      markerOk |-> TRUE, tgOk |-> TRUE, targets |-> t] : t \in legacy}
    \cup
    {[env |-> "prod", supports_blue_green |-> TRUE, active |-> a, markerOk |-> m,
      tgOk |-> t, targets |-> tg] :
        a \in Colors, m \in BOOLEAN, t \in BOOLEAN, tg \in bluegreen}

Configs == ConfigsOver({FleetTargets}, {FleetTargets})

\* --------------------------------------------------------------- Init
\* What an instance can be when the run starts: not in any group, in
\* service, or in its group but in another lifecycle state.
InstanceInits ==
    {[group |-> NoGroup, lifecycle |-> "Detached", protected |-> FALSE,
      state |-> "running", elb_health |-> "unused", service |-> "up"]}
    \cup
    {[group |-> g, lifecycle |-> "InService", protected |-> FALSE,
      state |-> "running", elb_health |-> "healthy", service |-> "up"] : g \in Groups}
    \cup
    {[group |-> "asg-1", lifecycle |-> "Terminating", protected |-> FALSE,
      state |-> "running", elb_health |-> "draining", service |-> "up"]}

\* The instances the commands list for a configuration. The commands read
\* and change no other instance: the others start in service in a group of
\* their own color.
Listed(c) ==
    IF c.supports_blue_green THEN Registered(c, c.active) ELSE Registered(c, "legacy")

Unlisted ==
    [group |-> "asg-2", lifecycle |-> "InService", protected |-> FALSE,
     state |-> "running", elb_health |-> "healthy", service |-> "up"]

FleetInits(c) ==
    {f \in [Instances -> InstanceInits] :
        \A i \in Instances \ Listed(c) : f[i] = Unlisted}

GroupInits ==
    {[DesiredCapacity |-> d, MinSize |-> BaseMin] : d \in BaseMin..(BaseMin + 1)}

\* A group none of the listed instances belongs to is never read or set by
\* the commands: it starts with one capacity.
UnusedGroup == [DesiredCapacity |-> BaseMin + 1, MinSize |-> BaseMin]

GroupsOf(c, f) == {f[i].group : i \in Listed(c)}

FleetGroupInits(c, f) ==
    {a \in [Groups -> GroupInits] :
        \A g \in Groups \ GroupsOf(c, f) : a[g] = UnusedGroup}

Init ==
    /\ pc = "confirm"
    /\ cfg \in Configs
    /\ command = "restart"
    /\ option_motd \in MotdOptions
    /\ remote_cmd = NoCmd
    /\ motd = ""
    /\ to_restart = <<>>
    /\ idx = 0
    /\ modified_groups = <<>>
    /\ failed = FALSE
    /\ as_group = NoGroupRead
    /\ adjustment_required = FALSE
    /\ rpos = 0
    /\ exitStatus = -1
    /\ inst \in FleetInits(cfg)
    /\ asg \in FleetGroupInits(cfg, inst)
    /\ calls = <<>>
    /\ outcome = [i \in Instances |-> "None"]
    /\ restores = 0
    /\ asg0 = asg
    /\ faults = 0
    /\ scalings = 0
    /\ polls = 0
    /\ response = NoResponse

\* ------------------------------------------------- the fleet restart run
cur == IF idx \in 1..Len(to_restart) THEN to_restart[idx] ELSE NoInstance

as_group_name == inst[cur].group

\* instance.describe_autoscale(): nothing when the instance is in no group.
describe_autoscale(i) ==
    IF inst[i].group = NoGroup
    THEN [found |-> FALSE, AutoScalingGroupName |-> NoGroup, LifecycleState |-> "none"]
    ELSE [found |-> TRUE, AutoScalingGroupName |-> inst[i].group,
          LifecycleState |-> inst[i].lifecycle]

\* The precondition of the loop body: "in_asg", then "in_service".
NotInAsg(status) == ~status.found

\* Faulty variant: only an instance in Standby is skipped.
NotInServiceOnlyStandby(status) == status.LifecycleState = "Standby"

NotInService(status) == status.LifecycleState # "InService"

\* get_autoscaling_group(as_group_name): the group as the cloud reports it.
get_autoscaling_group(g) == asg[g]

\* except RuntimeError (the handler around restart_one_instance).
Caught(cls) == cls = "RuntimeError"

\* adjustment_required = as_group["DesiredCapacity"] == as_group["MinSize"]
AdjustmentRequired(grp) == grp.DesiredCapacity = grp.MinSize

\* Faulty variant: the negation is lost.
ShouldDecrementWhenAdjusting(adj) == adj

\* ShouldDecrementDesiredCapacity=not adjustment_required
ShouldDecrementDesiredCapacity(adj) == ~adj

\* modified_groups[as_group["AutoScalingGroupName"]] = as_group["DesiredCapacity"]
Reserve(mg, g, grp) == DictSet(mg, g, grp.DesiredCapacity)

\* Faulty variant: the failed flag does not reach the exit status.
ExitCodeAlwaysZero(f) == 0

\* sys.exit(1 if failed else 0)
ExitCode(f) == IF f THEN 1 ELSE 0

\* One more external event fits the run.
EventsLeft == faults + scalings < MaxEvents

\* The run is under way: the cloud changes around it only while it is.
Running ==
    pc \notin {"confirm", "declined", "done", "aborted", "pick_one",
               "which_instance", "describe_one", "returned", "all"}

\* if not are_you_sure(...): return; set_update_message(cfg, motd)
Confirm ==
    /\ pc = "confirm"
    /\ \E sure \in BOOLEAN :
          IF sure
          THEN /\ motd' = option_motd
               /\ pc' = "pick"
               /\ exitStatus' = exitStatus
          ELSE /\ pc' = "declined"
               /\ motd' = motd
               /\ exitStatus' = 0
    /\ UNCHANGED <<cfg, args, to_restart, idx, modified_groups, failed,
                   locals, rpos, asg, inst, calls,
                   outcome, restores, asg0, faults, scalings, probe>>

\* modified_groups = {}; failed = False; to_restart = pick_instances(cfg).
\* A RuntimeError of pick_instances is raised outside any try block.
PickInstances ==
    /\ pc = "pick"
    /\ LET r == pick_instances(cfg)
       IN  IF r.raised
           THEN /\ pc' = "aborted"
                /\ exitStatus' = 1
                /\ UNCHANGED <<to_restart, idx>>
           ELSE /\ to_restart' = r.instances
                /\ idx' = 1
                /\ pc' = "loop"
                /\ exitStatus' = exitStatus
    /\ modified_groups' = <<>>
    /\ failed' = FALSE
    /\ UNCHANGED <<cfg, args, motd, locals, rpos, asg, inst, calls,
                   outcome, restores, asg0, faults, scalings, probe>>

\* The head of the loop body: describe_autoscale and the two "continue"s.
LoopHead ==
    /\ pc = "loop"
    /\ idx <= Len(to_restart)
    /\ LET status == describe_autoscale(cur)
       IN  IF NotInAsg(status)
           THEN /\ outcome' = [outcome EXCEPT ![cur] = "SkippedNotInGroup"]
                /\ idx' = idx + 1
                /\ pc' = "loop"
           ELSE IF NotInService(status)
           THEN /\ outcome' = [outcome EXCEPT ![cur] = "SkippedNotInService"]
                /\ idx' = idx + 1
                /\ pc' = "loop"
           ELSE /\ pc' = "set_protection"
                /\ UNCHANGED <<outcome, idx>>
    /\ UNCHANGED <<cfg, args, motd, to_restart, modified_groups, failed,
                   locals, rpos, exitStatus, asg, inst, calls,
                   restores, asg0, faults, scalings, probe>>

\* Faulty variant: the loop takes the instance that failed once more.
RaiseAndRetry(cls) ==
    /\ outcome' = [outcome EXCEPT ![cur] = "Failed"]
    /\ as_group' = NoGroupRead
    /\ adjustment_required' = FALSE
    /\ polls' = 0
    /\ response' = NoResponse
    /\ failed' = TRUE
    /\ idx' = idx
    /\ pc' = "loop"
    /\ exitStatus' = exitStatus

\* An exception leaves restart_one_instance: the handler of the loop takes a
\* RuntimeError (failed = True, next instance), the handler of
\* instances_restart_one takes it and the command returns; any other class
\* leaves the command too and ends the process with a traceback.
Raise(cls) ==
    /\ outcome' = [outcome EXCEPT ![cur] = "Failed"]
    /\ as_group' = NoGroupRead
    /\ adjustment_required' = FALSE
    /\ polls' = 0
    /\ response' = NoResponse
    /\ IF Caught(cls)
       THEN IF command = "restart"
            THEN /\ failed' = TRUE
                 /\ idx' = idx + 1
                 /\ pc' = "loop"
                 /\ exitStatus' = exitStatus
            ELSE /\ pc' = "returned"
                 /\ exitStatus' = 0
                 /\ UNCHANGED <<failed, idx>>
       ELSE /\ pc' = "aborted"
            /\ exitStatus' = 1
            /\ UNCHANGED <<failed, idx>>

\* A call to a collaborator raises: the request was issued (call), nothing
\* changed in the cloud.
CallRaises(call) ==
    /\ EventsLeft
    /\ faults' = faults + 1
    /\ calls' = Append(calls, call)
    /\ \E cls \in ExcClasses : Raise(cls)
    /\ UNCHANGED <<cfg, args, motd, to_restart, modified_groups, rpos, asg, inst,
                   restores, asg0, scalings>>

\* as_client.set_instance_protection(..., ProtectedFromScaleIn=True)
SetProtection ==
    /\ pc = "set_protection"
    /\ LET call == Call("set_instance_protection", cur, as_group_name, TRUE, 0)
       IN  \/ /\ calls' = Append(calls, call)
              /\ inst' = [inst EXCEPT ![cur].protected = TRUE]
              /\ pc' = "capacity_guard"
              /\ UNCHANGED <<cfg, args, motd, to_restart, idx, modified_groups, failed,
                             locals, rpos, exitStatus, asg, outcome,
                             restores, asg0, faults, scalings, probe>>
           \/ CallRaises(call)

\* as_group = get_autoscaling_group(as_group_name); adjustment_required;
\* the entry of modified_groups.
CapacityGuard ==
    /\ pc = "capacity_guard"
    /\ as_group' = get_autoscaling_group(as_group_name)
    /\ adjustment_required' = AdjustmentRequired(as_group')
    /\ modified_groups' =
          IF AdjustmentRequired(as_group')
          THEN Reserve(modified_groups, as_group_name, as_group')
          ELSE modified_groups
    /\ pc' = "enter_standby"
    /\ UNCHANGED <<cfg, args, motd, to_restart, idx, failed, rpos, exitStatus, asg,
                   inst, calls, outcome, restores, asg0, faults, scalings, probe>>

\* as_client.enter_standby(...). The group takes the instance out of
\* service and, when asked to, lowers its desired capacity by one.
EnterStandby ==
    /\ pc = "enter_standby"
    /\ LET dec  == ShouldDecrementDesiredCapacity(adjustment_required)
           call == Call("enter_standby", cur, as_group_name, dec, 0)
       IN  \/ /\ calls' = Append(calls, call)
              /\ inst' = [inst EXCEPT ![cur].lifecycle = "EnteringStandby",
                                      ![cur].elb_health = "unused"]
              /\ asg' = IF dec
                        THEN [asg EXCEPT ![as_group_name].DesiredCapacity = @ - 1]
                        ELSE asg
              /\ pc' = "wait_standby"
              /\ UNCHANGED <<cfg, args, motd, to_restart, idx, modified_groups, failed,
                             locals, rpos, exitStatus, outcome,
                             restores, asg0, faults, scalings, probe>>
           \/ CallRaises(call)

\* wait_for_autoscale_state(instance, state) returns once the instance
\* reports the lifecycle state.
wait_for_autoscale_state(i, state) == inst[i].lifecycle = state

WaitStandby ==
    /\ pc = "wait_standby"
    /\ wait_for_autoscale_state(cur, "Standby")
    /\ pc' = "restart_service"
    /\ UNCHANGED <<cfg, args, motd, to_restart, idx, modified_groups, failed,
                   locals, rpos, exitStatus, asg, inst, calls,
                   outcome, restores, asg0, faults, scalings, probe>>

\* exec_remote(instance, ["sudo", "systemctl", "restart", "compiler-explorer"]):
\* output is only a warning. The command cannot be delivered to an instance
\* that is not running.
RestartService ==
    /\ pc = "restart_service"
    /\ LET call == Call("exec_remote_restart", cur, as_group_name, FALSE, 0)
       IN  \/ /\ inst[cur].state = "running"
              /\ calls' = Append(calls, call)
              /\ inst' = [inst EXCEPT ![cur].service = "starting"]
              /\ pc' = "wait_for_healthok"
              /\ polls' = 0
              /\ response' = NoResponse
              /\ UNCHANGED <<cfg, args, motd, to_restart, idx, modified_groups, failed,
                             locals, rpos, exitStatus, asg, outcome,
                             restores, asg0, faults, scalings>>
           \/ /\ inst[cur].state # "running"
              /\ calls' = Append(calls, call)
              /\ Raise("OtherError")
              /\ UNCHANGED <<cfg, args, motd, to_restart, modified_groups, rpos, asg,
                             inst, restores, asg0, faults, scalings>>
           \/ CallRaises(call)

\* Response bodies are sequences of tokens: the text "Everything is awesome"
\* is one token, a character is one token. Whitespace is what str.strip()
\* removes, the characters for which str.isspace() holds: those of ASCII,
\* the separators FS, GS, RS and US, NEL, the no-break space and the spaces
\* and line separators of Unicode, written here by their code points.
Whitespace ==
    {" ", "\t", "\n", "\r", "\f", "\\x0b",
     "\\x1c", "\\x1d", "\\x1e", "\\x1f", "\\x85", "\\xa0",
     "\\u1680", "\\u2000", "\\u2001", "\\u2002", "\\u2003", "\\u2004",
     "\\u2005", "\\u2006", "\\u2007", "\\u2008", "\\u2009", "\\u200a",
     "\\u2028", "\\u2029", "\\u202f", "\\u205f", "\\u3000"}

Expected == <<"Everything is awesome">>

\* str.strip(): leading and trailing whitespace is removed.
RECURSIVE LStrip(_)
LStrip(s) ==
    IF s # <<>> /\ Head(s) \in Whitespace THEN LStrip(Tail(s)) ELSE s

RECURSIVE RStrip(_)
RStrip(s) ==
    IF s # <<>> /\ s[Len(s)] \in Whitespace
    THEN RStrip(SubSeq(s, 1, Len(s) - 1))
    ELSE s

Strip(s) == RStrip(LStrip(s))

\* The bodies the health endpoint may answer with: curl prints the body as
\* the service sent it, with or without a line end.
HealthcheckBody(i) ==
    IF inst[i].service = "up"
    THEN {Expected, Expected \o <<"\n">>}
    ELSE {<<>>}

\* What exec_remote gives for the probe: a CalledProcessError when the
\* command cannot be delivered or curl fails, else the body.
Responses(i) ==
    IF inst[i].state # "running"
    THEN {[raised |-> TRUE, body |-> <<>>]}
    ELSE {[raised |-> FALSE, body |-> b] : b \in HealthcheckBody(i)}

TransportFault == [raised |-> TRUE, body |-> <<>>]

\* Faulty variant: a CalledProcessError of the probe counts as healthy.
is_everything_awesome_on_error(r) == r.raised \/ Strip(r.body) = Expected

\* Faulty variant: any answer of the endpoint counts.
is_everything_awesome_any_body(r) == ~r.raised

\* is_everything_awesome: the stripped answer is compared with the expected
\* string; a CalledProcessError of exec_remote gives False.
is_everything_awesome(r) ==
    IF r.raised THEN FALSE
    ELSE Strip(r.body) = Expected

\* wait_for_healthok: probe, and sleep and probe again while the answer is
\* False. The probe cannot be delivered to an instance that is not running.
WaitForHealthOk ==
    /\ pc = "wait_for_healthok"
    /\ \/ \E r \in Responses(cur) :
            /\ is_everything_awesome(r)
            /\ response' = r
            /\ pc' = "exit_standby"
            /\ polls' = 0
            /\ faults' = faults
       \/ \E r \in Responses(cur) :
            /\ ~is_everything_awesome(r)
            /\ polls < MaxPolls
            /\ response' = r
            /\ polls' = polls + 1
            /\ UNCHANGED <<pc, faults>>
       \/ /\ EventsLeft
          /\ ~is_everything_awesome(TransportFault)
          /\ polls < MaxPolls
          /\ response' = TransportFault
          /\ polls' = polls + 1
          /\ faults' = faults + 1
          /\ pc' = pc
    /\ UNCHANGED <<cfg, args, motd, to_restart, idx, modified_groups, failed,
                   locals, rpos, exitStatus, asg, inst, calls,
                   outcome, restores, asg0, scalings>>

\* as_client.exit_standby(...). The group puts the instance back and raises
\* its desired capacity by one.
ExitStandby ==
    /\ pc = "exit_standby"
    /\ LET call == Call("exit_standby", cur, as_group_name, FALSE, 0)
       IN  \/ /\ calls' = Append(calls, call)
              /\ inst' = [inst EXCEPT ![cur].lifecycle = "Pending"]
              /\ asg' = [asg EXCEPT ![as_group_name].DesiredCapacity = @ + 1]
              /\ pc' = "wait_in_service"
              /\ response' = NoResponse
              /\ UNCHANGED <<cfg, args, motd, to_restart, idx, modified_groups, failed,
                             locals, rpos, exitStatus, outcome,
                             restores, asg0, faults, scalings, polls>>
           \/ CallRaises(call)

WaitInService ==
    /\ pc = "wait_in_service"
    /\ wait_for_autoscale_state(cur, "InService")
    /\ pc' = "wait_for_elb_state"
    /\ UNCHANGED <<cfg, args, motd, to_restart, idx, modified_groups, failed,
                   locals, rpos, exitStatus, asg, inst, calls,
                   outcome, restores, asg0, faults, scalings, probe>>

\* Faulty variant: the wait returns on the first poll of a running instance.
ElbStateNotAwaited(i, state) == TRUE

\* if instance.elb_health == state: return
ElbStateReached(i, state) == inst[i].elb_health = state

\* wait_for_elb_state(instance, "healthy"): instance.update(); a state other
\* than running raises RuntimeError; the wanted health ends the wait.
WaitForElbState ==
    /\ pc = "wait_for_elb_state"
    /\ \/ /\ inst[cur].state # "running"
          /\ Raise("RuntimeError")
       \/ /\ inst[cur].state = "running"
          /\ ElbStateReached(cur, "healthy")
          /\ pc' = "clear_protection"
          /\ UNCHANGED <<idx, failed, locals, exitStatus, outcome, probe>>
    /\ UNCHANGED <<cfg, args, motd, to_restart, modified_groups, rpos, asg, inst,
                   calls, restores, asg0, faults, scalings>>

\* as_client.set_instance_protection(..., ProtectedFromScaleIn=False), and
\* the return of restart_one_instance to the loop.
ClearProtection ==
    /\ pc = "clear_protection"
    /\ LET call == Call("set_instance_protection", cur, as_group_name, FALSE, 0)
       IN  \/ /\ calls' = Append(calls, call)
              /\ inst' = [inst EXCEPT ![cur].protected = FALSE]
              /\ outcome' = [outcome EXCEPT ![cur] = "Success"]
              /\ as_group' = NoGroupRead
              /\ adjustment_required' = FALSE
              /\ IF command = "restart"
                 THEN /\ idx' = idx + 1
                      /\ pc' = "loop"
                      /\ exitStatus' = exitStatus
                 ELSE /\ idx' = idx
                      /\ pc' = "returned"
                      /\ exitStatus' = 0
              /\ UNCHANGED <<cfg, args, motd, to_restart, modified_groups, failed,
                             rpos, asg, restores, asg0, faults,
                             scalings, probe>>
           \/ CallRaises(call)

\* The loop over to_restart is exhausted: the loop over
\* modified_groups.items() begins.
EndLoop ==
    /\ pc = "loop"
    /\ idx > Len(to_restart)
    /\ pc' = "restore"
    /\ rpos' = 1
    /\ restores' = restores + 1
    /\ UNCHANGED <<cfg, args, motd, to_restart, idx, modified_groups, failed,
                   locals, exitStatus, asg, inst, calls, outcome,
                   asg0, faults, scalings, probe>>

\* as_client.update_auto_scaling_group(AutoScalingGroupName=group,
\* DesiredCapacity=desired) for one item. No try block is around it.
RestoreGroup ==
    /\ pc = "restore"
    /\ rpos <= Len(modified_groups)
    /\ LET item == modified_groups[rpos]
           call == Call("update_auto_scaling_group", NoInstance, item.k, FALSE, item.v)
       IN  /\ calls' = Append(calls, call)
           /\ \/ /\ asg' = [asg EXCEPT ![item.k].DesiredCapacity = item.v]
                 /\ rpos' = rpos + 1
                 /\ UNCHANGED <<pc, exitStatus, faults>>
              \/ /\ EventsLeft
                 /\ faults' = faults + 1
                 /\ pc' = "aborted"
                 /\ exitStatus' = 1
                 /\ UNCHANGED <<asg, rpos>>
    /\ UNCHANGED <<cfg, args, motd, to_restart, idx, modified_groups, failed,
                   locals, inst, outcome, restores, asg0,
                   scalings, probe>>

\* set_update_message(cfg, ""); the elapsed time; sys.exit.
Finish ==
    /\ pc = "restore"
    /\ rpos > Len(modified_groups)
    /\ motd' = ""
    /\ exitStatus' = ExitCode(failed)
    /\ pc' = "done"
    /\ UNCHANGED <<cfg, args, to_restart, idx, modified_groups, failed,
                   locals, rpos, asg, inst, calls, outcome,
                   restores, asg0, faults, scalings, probe>>

\* ------------------------------------------------------------ the cloud
runVars == <<pc, cfg, args, motd, to_restart, idx, modified_groups, failed,
             locals, rpos, exitStatus, calls, outcome, restores,
             asg0, probe>>

\* The group completes a lifecycle transition it was asked for.
CloudLifecycle(i) ==
    /\ Running
    /\ inst[i].lifecycle \in {"EnteringStandby", "Pending"}
    /\ inst' = [inst EXCEPT ![i].lifecycle =
                   IF @ = "EnteringStandby" THEN "Standby" ELSE "InService"]
    /\ UNCHANGED <<runVars, asg, faults, scalings>>

\* The restarted service comes up.
ServiceStarts(i) ==
    /\ Running
    /\ inst[i].service = "starting"
    /\ inst[i].state = "running"
    /\ inst' = [inst EXCEPT ![i].service = "up"]
    /\ UNCHANGED <<runVars, asg, faults, scalings>>

\* The load balancer finds an in-service instance healthy.
ElbHealthCheck(i) ==
    /\ Running
    /\ inst[i].lifecycle = "InService"
    /\ inst[i].state = "running"
    /\ inst[i].service = "up"
    /\ inst[i].elb_health # "healthy"
    /\ inst' = [inst EXCEPT ![i].elb_health = "healthy"]
    /\ UNCHANGED <<runVars, asg, faults, scalings>>

\* The compute resource of the instance under restart stops running. (The
\* run reads the state of no other instance.)
InstanceStops(i) ==
    /\ pc \in {"restart_service", "wait_for_healthok", "exit_standby",
               "wait_in_service", "wait_for_elb_state"}
    /\ i = cur
    /\ EventsLeft
    /\ inst[i].state = "running"
    /\ inst' = [inst EXCEPT ![i].state = "stopped",
                            ![i].service = "down",
                            ![i].elb_health = IF @ = "healthy" THEN "unhealthy" ELSE @]
    /\ faults' = faults + 1
    /\ UNCHANGED <<runVars, asg, scalings>>

\* The run is about to read group g, to ask for a decrement of it or to set
\* it: an external change of g at any other moment has the effect of the
\* same change made at the next of these moments.
AboutToTouch(g) ==
    \/ /\ pc \in {"capacity_guard", "enter_standby"}
       /\ g = as_group_name
    \/ /\ pc = "restore"
       /\ rpos <= Len(modified_groups)
       /\ modified_groups[rpos].k = g

\* The external autoscaler (or an operator) changes a group: scale out,
\* scale in down to MinSize, or a raised MinSize that takes the desired
\* capacity with it.
Autoscaler(g) ==
    /\ AboutToTouch(g)
    /\ EventsLeft
    /\ scalings' = scalings + 1
    /\ \/ asg' = [asg EXCEPT ![g].DesiredCapacity = @ + 1]
       \/ /\ asg[g].DesiredCapacity > asg[g].MinSize
          /\ asg' = [asg EXCEPT ![g].DesiredCapacity = @ - 1]
       \/ asg' = [asg EXCEPT ![g].MinSize = @ + 1,
                             ![g].DesiredCapacity =
                                 IF @ > asg[g].MinSize THEN @ ELSE asg[g].MinSize + 1]
    /\ UNCHANGED <<runVars, inst, faults>>

Next ==
    \/ Confirm
    \/ PickInstances
    \/ LoopHead
    \/ SetProtection
    \/ CapacityGuard
    \/ EnterStandby
    \/ WaitStandby
    \/ RestartService
    \/ WaitForHealthOk
    \/ ExitStandby
    \/ WaitInService
    \/ WaitForElbState
    \/ ClearProtection
    \/ EndLoop
    \/ RestoreGroup
    \/ Finish
    \/ \E i \in Instances : CloudLifecycle(i)
    \/ \E i \in Instances : ServiceStarts(i)
    \/ \E i \in Instances : ElbHealthCheck(i)
    \/ \E i \in Instances : InstanceStops(i)
    \/ \E g \in Groups : Autoscaler(g)

Spec == Init /\ [][Next]_vars

\* ------------------------------------------------- the restart of one
\* instances_restart_one is invoked.
InitOne ==
    /\ pc = "pick_one"
    /\ cfg \in Configs
    /\ command = "restart_one"
    /\ option_motd = ""
    /\ remote_cmd = NoCmd
    /\ motd = ""
    /\ to_restart = <<>>
    /\ idx = 0
    /\ modified_groups = <<>>
    /\ failed = FALSE
    /\ as_group = NoGroupRead
    /\ adjustment_required = FALSE
    /\ rpos = 0
    /\ exitStatus = -1
    /\ inst \in FleetInits(cfg)
    /\ asg \in FleetGroupInits(cfg, inst)
    /\ calls = <<>>
    /\ outcome = [i \in Instances |-> "None"]
    /\ restores = 0
    /\ asg0 = asg
    /\ faults = 0
    /\ scalings = 0
    /\ polls = 0
    /\ response = NoResponse

\* elb_instances[int(inst)]: the answers that are an index of the listing,
\* counted from 0, or from -1 backwards from its end. Any other answer is
\* refused and the question is asked again, which changes nothing.
Answers(listing) == (0 - Len(listing))..(Len(listing) - 1)

Position(listing, answer) ==
    IF answer >= 0 THEN answer + 1 ELSE Len(listing) + answer + 1

\* pick_instance, the listing: elb_instances = get_instances_for_environment(cfg)
\* is read and kept in to_restart; its only instance is returned at once. A
\* RuntimeError of the listing leaves the command.
PickOne ==
    /\ pc = "pick_one"
    /\ LET r == get_instances_for_environment(cfg)
       IN  IF r.raised
           THEN /\ pc' = "aborted"
                /\ exitStatus' = 1
                /\ UNCHANGED <<to_restart, idx>>
           ELSE /\ to_restart' = r.instances
                /\ exitStatus' = exitStatus
                /\ IF Len(r.instances) = 1
                   THEN /\ idx' = 1
                        /\ pc' = "describe_one"
                   ELSE /\ idx' = idx
                        /\ pc' = "which_instance"
    /\ UNCHANGED <<cfg, args, motd, modified_groups, failed, locals, rpos, asg,
                   inst, calls, outcome, restores, asg0, faults, scalings, probe>>

\* pick_instance, input("Which instance? "): the command waits for the
\* operator and returns the instance the answer names.
WhichInstance ==
    /\ pc = "which_instance"
    /\ \E answer \in Answers(to_restart) :
          idx' = Position(to_restart, answer)
    /\ pc' = "describe_one"
    /\ UNCHANGED <<cfg, args, motd, to_restart, modified_groups, failed,
                   locals, rpos, exitStatus, asg, inst, calls,
                   outcome, restores, asg0, faults, scalings, probe>>

\* as_instance_status = instance.describe_autoscale(); the return when the
\* instance is in no group; modified_groups = {}.
DescribeOne ==
    /\ pc = "describe_one"
    /\ IF NotInAsg(describe_autoscale(cur))
       THEN /\ pc' = "returned"
            /\ exitStatus' = 0
            /\ modified_groups' = modified_groups
       ELSE /\ pc' = "set_protection"
            /\ exitStatus' = exitStatus
            /\ modified_groups' = <<>>
    /\ UNCHANGED <<cfg, args, motd, to_restart, idx, failed, locals, rpos, asg,
                   inst, calls, outcome, restores, asg0, faults, scalings, probe>>

\* The picked or a listed instance leaves its group while the command has
\* the listing and has not read the group yet.
InstanceLeavesGroup(i) ==
    /\ pc \in {"which_instance", "describe_one"}
    /\ EventsLeft
    /\ inst[i].group # NoGroup
    /\ \E j \in 1..Len(to_restart) : to_restart[j] = i
    /\ inst' = [inst EXCEPT ![i].group = NoGroup,
                            ![i].lifecycle = "Detached",
                            ![i].elb_health = "unused"]
    /\ faults' = faults + 1
    /\ UNCHANGED <<runVars, asg, scalings>>

NextOne ==
    \/ PickOne
    \/ WhichInstance
    \/ DescribeOne
    \/ \E i \in Instances : InstanceLeavesGroup(i)
    \/ SetProtection
    \/ CapacityGuard
    \/ EnterStandby
    \/ WaitStandby
    \/ RestartService
    \/ WaitForHealthOk
    \/ ExitStandby
    \/ WaitInService
    \/ WaitForElbState
    \/ ClearProtection
    \/ \E i \in Instances : CloudLifecycle(i)
    \/ \E i \in Instances : ServiceStarts(i)
    \/ \E i \in Instances : ElbHealthCheck(i)
    \/ \E i \in Instances : InstanceStops(i)
    \/ \E g \in Groups : Autoscaler(g)

SpecOne == InitOne /\ [][NextOne]_vars

\* ------------------------------------- exec_all, start and stop
\* The service of an instance after a command was executed on it.
ServiceAfter(cmd, service) ==
    CASE cmd = "systemctl_stop"  -> "down"
      [] cmd = "systemctl_start" -> IF service = "down" THEN "starting" ELSE service
      [] OTHER                   -> service

\* One of the three commands is invoked; the service of an instance may be
\* down already.
InitAll ==
    /\ pc = "all"
    /\ cfg \in {[c EXCEPT !.env = e] : c \in Configs, e \in Environments}
    /\ \/ command = "exec_all" /\ remote_cmd \in RemoteCmds
       \/ command = "start" /\ remote_cmd = "systemctl_start"
       \/ command = "stop" /\ remote_cmd = "systemctl_stop"
    /\ option_motd = ""
    /\ motd = ""
    /\ to_restart = <<>>
    /\ idx = 0
    /\ modified_groups = <<>>
    /\ failed = FALSE
    /\ as_group = NoGroupRead
    /\ adjustment_required = FALSE
    /\ rpos = 0
    /\ exitStatus = -1
    /\ \E f \in FleetInits(cfg), down \in SUBSET Listed(cfg) :
          inst = [i \in Instances |->
                    IF i \in down THEN [f[i] EXCEPT !.service = "down"] ELSE f[i]]
    /\ asg = [g \in Groups |-> UnusedGroup]
    /\ calls = <<>>
    /\ outcome = [i \in Instances |-> "None"]
    /\ restores = 0
    /\ asg0 = asg
    /\ faults = 0
    /\ scalings = 0
    /\ polls = 0
    /\ response = NoResponse

\* exec_remote_all(instances, remote_cmd): the command is executed on the
\* instances in the order of the listing; it raises at the first instance
\* it cannot be delivered to, and the exception leaves the command.
exec_remote_all(instances, cmd) ==
    LET request(i) == Call(cmd, i, NoGroup, FALSE, 0)
        after(n) == [i \in Instances |->
                        IF \E j \in 1..n : instances[j] = i
                        THEN [inst[i] EXCEPT !.service = ServiceAfter(cmd, @)]
                        ELSE inst[i]]
    IN  \/ /\ inst' = after(Len(instances))
           /\ calls' = calls \o [j \in 1..Len(instances) |-> request(instances[j])]
           /\ pc' = "returned"
           /\ exitStatus' = 0
           /\ faults' = faults
        \/ /\ EventsLeft
           /\ \E k \in 1..Len(instances) :
                 /\ inst' = after(k - 1)
                 /\ calls' = calls \o [j \in 1..k |-> request(instances[j])]
           /\ pc' = "aborted"
           /\ exitStatus' = 1
           /\ faults' = faults + 1

\* pick_instances(cfg) as the argument of exec_remote_all: a RuntimeError
\* of the listing leaves the command.
ExecOnAll ==
    LET r == pick_instances(cfg)
    IN  IF r.raised
        THEN /\ pc' = "aborted"
             /\ exitStatus' = 1
             /\ UNCHANGED <<inst, calls, faults>>
        ELSE exec_remote_all(r.instances, remote_cmd)

Return ==
    /\ pc' = "returned"
    /\ exitStatus' = 0
    /\ UNCHANGED <<inst, calls, faults>>

\* instances_exec_all: are_you_sure, then the command on all instances.
InstancesExecAll ==
    /\ pc = "all"
    /\ command = "exec_all"
    /\ \E sure \in BOOLEAN : IF sure THEN ExecOnAll ELSE Return
    /\ UNCHANGED <<cfg, args, motd, to_restart, idx, modified_groups, failed,
                   locals, rpos, asg, outcome, restores, asg0, scalings, probe>>

\* instances_start: systemctl start on all instances, nothing is asked.
InstancesStart ==
    /\ pc = "all"
    /\ command = "start"
    /\ ExecOnAll
    /\ UNCHANGED <<cfg, args, motd, to_restart, idx, modified_groups, failed,
                   locals, rpos, asg, outcome, restores, asg0, scalings, probe>>

\* instances_stop: refused on PROD; else are_you_sure, then systemctl stop
\* on all instances.
InstancesStop ==
    /\ pc = "all"
    /\ command = "stop"
    /\ IF cfg.env = "prod"
       THEN Return
       ELSE \E sure \in BOOLEAN : IF sure THEN ExecOnAll ELSE Return
    /\ UNCHANGED <<cfg, args, motd, to_restart, idx, modified_groups, failed,
                   locals, rpos, asg, outcome, restores, asg0, scalings, probe>>

NextAll ==
    \/ InstancesExecAll
    \/ InstancesStart
    \/ InstancesStop

SpecAll == InitAll /\ [][NextAll]_vars

\* ------------------------------------------- the restoration, twice
\* The loop over modified_groups.items() has ended and is executed a second
\* time, on the ledger as the first execution left it.
RestoreAgain ==
    /\ pc = "restore"
    /\ rpos > Len(modified_groups)
    /\ restores = 1
    /\ rpos' = 1
    /\ restores' = restores + 1
    /\ UNCHANGED <<pc, cfg, args, motd, to_restart, idx, modified_groups, failed,
                   locals, exitStatus, asg, inst, calls, outcome,
                   asg0, faults, scalings, probe>>

NextTwice ==
    \/ Next
    \/ RestoreAgain

SpecTwice == Init /\ [][NextTwice]_vars

\* ------------------------------------------- the resolution of candidates
\* The run up to the candidates, over every registration of the instances
\* with the target groups and over healthy and draining instances.
InitResolve ==
    /\ pc = "confirm"
    /\ cfg \in ConfigsOver(LegacyTargets, BlueGreenTargets)
    /\ command = "restart"
    /\ option_motd = DefaultMotd
    /\ remote_cmd = NoCmd
    /\ motd = ""
    /\ to_restart = <<>>
    /\ idx = 0
    /\ modified_groups = <<>>
    /\ failed = FALSE
    /\ as_group = NoGroupRead
    /\ adjustment_required = FALSE
    /\ rpos = 0
    /\ exitStatus = -1
    /\ asg = [g \in Groups |-> [DesiredCapacity |-> BaseMin + 1, MinSize |-> BaseMin]]
    /\ inst \in [Instances -> {r \in InstanceInits : r.group = "asg-1"}]
    /\ calls = <<>>
    /\ outcome = [i \in Instances |-> "None"]
    /\ restores = 0
    /\ asg0 = asg
    /\ faults = 0
    /\ scalings = 0
    /\ polls = 0
    /\ response = NoResponse

NextResolve ==
    \/ Confirm
    \/ PickInstances

SpecResolve == InitResolve /\ [][NextResolve]_vars

TypeOK ==
    /\ pc \in {"confirm", "declined", "pick", "loop", "set_protection",
               "capacity_guard", "enter_standby", "wait_standby",
               "restart_service", "wait_for_healthok", "exit_standby",
               "wait_in_service", "wait_for_elb_state", "clear_protection",
               "restore", "done", "aborted", "pick_one", "which_instance",
               "describe_one", "returned", "all"}
    /\ command \in {"restart", "restart_one", "exec_all", "start", "stop"}
    /\ remote_cmd \in RemoteCmds \cup {NoCmd}
    /\ option_motd \in MotdOptions
    /\ motd \in MotdOptions
    /\ response \in [raised : BOOLEAN,
                     body : {<<>>, <<"none">>, Expected, Expected \o <<"\n">>}]
    /\ idx \in 0..(NumInstances + 1)
    /\ failed \in BOOLEAN
    /\ exitStatus \in {-1, 0, 1}
    /\ faults \in 0..MaxEvents
    /\ scalings \in 0..MaxEvents
    /\ polls \in 0..MaxPolls

\* ============================================================= properties
LastCall == calls[Len(calls)]

RunEnded == pc \in {"done", "aborted"}

\* The groups some request of the run named.
TouchedGroups == {calls[j].group : j \in 1..Len(calls)}

EnteredStandby(i) ==
    \E j \in 1..Len(calls) : calls[j].op = "enter_standby" /\ calls[j].inst = i

\* The run asked for instance i to enter standby and i is not (yet) back in
\* service and healthy.
OutOfRotation(i) ==
    /\ EnteredStandby(i)
    /\ ~(inst[i].lifecycle = "InService" /\ inst[i].elb_health = "healthy")

LookupFails == cfg.supports_blue_green /\ ~(cfg.markerOk /\ cfg.tgOk)

\* C1 (capacity conservation): when the run has ended, and nobody else
\* changed a group meanwhile, every group named in a request of the run has
\* the desired capacity it had before the run.
C1_CapacityConservation ==
    (RunEnded /\ scalings = 0) =>
        \A g \in TouchedGroups : asg[g].DesiredCapacity = asg0[g].DesiredCapacity

\* C2 (at most one in flight), as claimed: in every reachable state at most
\* one running instance is out of rotation because of the run's requests.
C2_AtMostOneInFlight ==
    Cardinality({i \in Instances : OutOfRotation(i) /\ inst[i].state = "running"}) <= 1

\* C2, amended: every instance out of rotation because of the run's
\* requests is the instance being processed or one whose restart failed; so
\* with no failed restart at most one instance is out of rotation.
C2_OnlyCurrentOrFailedInFlight ==
    /\ \A i \in Instances : OutOfRotation(i) => (i = cur \/ outcome[i] = "Failed")
    /\ (\A i \in Instances : outcome[i] # "Failed") =>
           Cardinality({i \in Instances : OutOfRotation(i)}) <= 1

\* C2 witness: a failed instance was left in standby and the next one has
\* been taken out of rotation too.
C2_Witness ==
    \E i, j \in Instances :
        /\ i # j
        /\ outcome[i] = "Failed" /\ OutOfRotation(i)
        /\ j = cur /\ OutOfRotation(j)

\* C3 (failure isolation): an instance whose restart raised is recorded as
\* failed and the loop has gone on to what follows it.
C3_FailureIsolation ==
    \A i \in Instances : outcome[i] = "Failed" => (failed /\ cur # i)

\* C4 (restoration once, at the end, on every run that touched an instance):
\* the loop over the ledger begins at most once, only after the loop over
\* the instances is exhausted, and has begun in every ended run that issued
\* a request.
C4_RestoreOncePerRun ==
    /\ restores <= 1
    /\ restores = 1 => idx > Len(to_restart)
    /\ (RunEnded /\ calls # <<>>) => restores = 1

\* C5 (capacity guard), as claimed: desired = min at the guard gives an
\* enter-standby request that decrements, with the desired capacity recorded
\* before it; desired > min gives one that does not, and records nothing.
C5_GuardAsClaimed ==
    [][/\ (pc = "capacity_guard" /\ pc' = "enter_standby") =>
             LET grp == asg[as_group_name]
             IN  /\ as_group' = grp
                 /\ calls' = calls
                 /\ IF grp.DesiredCapacity = grp.MinSize
                    THEN /\ as_group_name \in DictKeys(modified_groups')
                         /\ DictGet(modified_groups', as_group_name) = grp.DesiredCapacity
                    ELSE modified_groups' = modified_groups
       /\ (pc = "enter_standby" /\ calls' # calls) =>
             LET c == calls'[Len(calls')]
             IN  /\ c.op = "enter_standby"
                 /\ c.flag = (as_group.DesiredCapacity = as_group.MinSize)
                 /\ as_group.DesiredCapacity = as_group.MinSize =>
                        as_group_name \in DictKeys(modified_groups)
      ]_vars

\* C5, amended: desired = min at the guard gives an enter-standby request
\* that does NOT decrement, with the desired capacity read at the guard
\* recorded before it; desired > min gives a request that decrements, and
\* records nothing.
C5_GuardDecidesDecrement ==
    [][/\ (pc = "capacity_guard" /\ pc' = "enter_standby") =>
             LET grp == asg[as_group_name]
             IN  /\ as_group' = grp
                 /\ calls' = calls
                 /\ IF grp.DesiredCapacity = grp.MinSize
                    THEN /\ as_group_name \in DictKeys(modified_groups')
                         /\ DictGet(modified_groups', as_group_name) = grp.DesiredCapacity
                    ELSE modified_groups' = modified_groups
       /\ (pc = "enter_standby" /\ calls' # calls) =>
             LET c == calls'[Len(calls')]
             IN  /\ c.op = "enter_standby"
                 /\ c.flag = (as_group.DesiredCapacity # as_group.MinSize)
                 /\ as_group.DesiredCapacity = as_group.MinSize =>
                        as_group_name \in DictKeys(modified_groups)
      ]_vars

\* C5 witness: standby was requested without decrement for a group found at
\* its minimum, whose desired capacity is in the ledger.
C5_Witness ==
    /\ pc = "wait_standby"
    /\ as_group.DesiredCapacity = as_group.MinSize
    /\ LastCall.op = "enter_standby" /\ LastCall.inst = cur /\ ~LastCall.flag
    /\ as_group_name \in DictKeys(modified_groups)
    /\ DictGet(modified_groups, as_group_name) = as_group.DesiredCapacity

\* C6 (skip correctness): the step of the loop on an instance that is in a
\* group but not InService records the skip, goes to the next instance,
\* issues no request and leaves the ledger alone.
C6_SkipNotInService ==
    [][(/\ pc = "loop"
        /\ idx <= Len(to_restart)
        /\ inst[cur].group # NoGroup
        /\ inst[cur].lifecycle # "InService"
        /\ <<pc, idx>>' # <<pc, idx>>) =>
            /\ pc' = "loop"
            /\ idx' = idx + 1
            /\ outcome' = [outcome EXCEPT ![cur] = "SkippedNotInService"]
            /\ calls' = calls
            /\ modified_groups' = modified_groups
            /\ asg' = asg
            /\ inst' = inst
      ]_vars

\* C6 witness: an instance was skipped as not InService, no request names
\* it, and the run went on to issue requests for another instance.
C6_Witness ==
    \E i \in Instances :
        /\ outcome[i] = "SkippedNotInService"
        /\ \A j \in 1..Len(calls) : calls[j].inst # i
        /\ calls # <<>>

\* C7 (exit status): a run that reached sys.exit has status 1 when some
\* instance's restart failed and 0 when none did, skipped instances or not.
C7_ExitStatus ==
    pc = "done" =>
        exitStatus = IF \E i \in Instances : outcome[i] = "Failed" THEN 1 ELSE 0

\* C7 witness: a run with a skipped and a failed instance exited with 1.
C7_Witness ==
    /\ pc = "done"
    /\ exitStatus = 1
    /\ \E i \in Instances : outcome[i] \in {"SkippedNotInGroup", "SkippedNotInService"}
    /\ \E i \in Instances : outcome[i] = "Failed"

\* C8 (reserve keeps the first value): no step changes the value the ledger
\* holds for a group.
C8_ReserveKeepsFirst ==
    [][\A g \in DictKeys(modified_groups) :
           /\ g \in DictKeys(modified_groups')
           /\ DictGet(modified_groups', g) = DictGet(modified_groups, g)
      ]_vars

\* C9 (resource gone during health verification): a health probe made while
\* the instance is not running ends the instance's sequence as failed.
C9_GoneEndsHealthWait ==
    [][(/\ pc = "wait_for_healthok"
        /\ inst[cur].state # "running"
        /\ polls' # polls) =>
            /\ pc' # "wait_for_healthok"
            /\ outcome'[cur] = "Failed"
      ]_vars

\* C10 (resolution error touches nothing): with a failing blue/green lookup
\* the run gets no further than the resolution, where it ends with an
\* error, and no request was issued and no ledger entry made.
C10_ResolutionErrorTouchesNothing ==
    LookupFails =>
        /\ pc \in {"confirm", "declined", "pick", "aborted"}
        /\ calls = <<>>
        /\ modified_groups = <<>>
        /\ \A i \in Instances : outcome[i] = "None"

\* C10 witness: the run has ended on the resolution error.
C10_Witness ==
    /\ LookupFails
    /\ pc = "aborted"
    /\ exitStatus = 1
    /\ calls = <<>>

\* ------------------------------------------------------------ C11 .. C20
Candidates == {to_restart[j] : j \in 1..Len(to_restart)}

Resolved == pc = "loop" /\ idx = 1

\* C11 (color resolution): the candidates of a blue/green environment are
\* exactly the instances registered with the target group of the active
\* color, each once, whatever their health and whatever the other target
\* group holds; the candidates of a legacy environment are exactly the
\* instances of its sole target group.
C11_ColorResolution ==
    Resolved =>
        /\ Len(to_restart) = Cardinality(Candidates)
        /\ cfg.supports_blue_green =>
              /\ Candidates = cfg.targets[cfg.active]
              /\ \A i \in cfg.targets[OtherColor(cfg.active)] \ cfg.targets[cfg.active] :
                    i \notin Candidates
        /\ ~cfg.supports_blue_green => Candidates = cfg.targets["legacy"]

\* Blue is active and green holds more instances, one of them only green;
\* blue's instance is draining and is a candidate all the same.
C11_Witness ==
    /\ Resolved
    /\ cfg.supports_blue_green
    /\ cfg.active = "blue"
    /\ Cardinality(cfg.targets["green"]) > Cardinality(cfg.targets["blue"])
    /\ cfg.targets["green"] \ cfg.targets["blue"] # {}
    /\ \E i \in Candidates : inst[i].elb_health # "healthy"

\* A step of wait_for_healthok that made a probe.
Probed == pc = "wait_for_healthok" /\ (polls' # polls \/ pc' # pc)

\* C12 as stated (health probe error handling): a transport error of the
\* probe is reported as unhealthy and the loop polls again without ending
\* the instance's sequence; only a body exactly equal to the expected string
\* is reported as healthy.
C12_ExactBodyOnly ==
    [][Probed =>
        /\ response'.raised =>
              (pc' = "wait_for_healthok" /\ outcome' = outcome /\ failed' = failed)
        /\ (pc' = "exit_standby") <=>
              (~response'.raised /\ response'.body = Expected)]_vars

\* C12 (health probe error handling): a CalledProcessError of the probe is
\* reported as unhealthy, so the loop polls again and the instance's
\* sequence goes on; a body is reported as healthy exactly when it equals
\* the expected string once leading and trailing whitespace is removed.
C12_StrippedBodyOnly ==
    [][Probed =>
        /\ response'.raised =>
              /\ pc' = "wait_for_healthok"
              /\ polls' = polls + 1
              /\ outcome' = outcome /\ failed' = failed /\ calls' = calls
        /\ (pc' = "exit_standby") <=>
              (~response'.raised /\ Strip(response'.body) = Expected)]_vars

\* The probe of a running instance in Standby met a transport error; the
\* run is still waiting on that instance and nothing was recorded as failed.
C12_Witness ==
    /\ pc = "wait_for_healthok"
    /\ response.raised
    /\ polls >= 1
    /\ inst[cur].state = "running"
    /\ outcome[cur] = "None"
    /\ ~failed

\* C13 (precondition check of restart_one): the first request restart_one
\* issues, the setting of scale-in protection, is for an instance whose
\* lifecycle state in its group is InService; for any other instance the
\* command short-circuits and issues no request.
C13_OnlyInServiceRestarted ==
    [][(command = "restart_one" /\ calls = <<>> /\ calls' # calls) =>
          inst[cur].lifecycle = "InService"]_vars

\* The steps of restart_one_instance that change something, in the order of
\* the code.
Steps == <<"protect", "enter_standby", "exec_remote_restart", "exit_standby", "unprotect">>

StepName(c) ==
    IF c.op = "set_instance_protection"
    THEN IF c.flag THEN "protect" ELSE "unprotect"
    ELSE c.op

\* The steps requested for instance i so far, in the order of the requests.
RECURSIVE StepsOf(_, _)
StepsOf(cs, i) ==
    IF cs = <<>> THEN <<>>
    ELSE IF Head(cs).inst = i
         THEN <<StepName(Head(cs))>> \o StepsOf(Tail(cs), i)
         ELSE StepsOf(Tail(cs), i)

IsPrefix(p, q) == Len(p) <= Len(q) /\ \A j \in 1..Len(p) : p[j] = q[j]

\* C14 (step ordering of one instance): the requests for an instance are a
\* prefix of protect, enter-standby, remote restart, exit-standby, unprotect;
\* the remote restart is requested of an instance in Standby, exit-standby
\* after a probe that was healthy, unprotect for an instance that is
\* InService and healthy at the load balancer.
C14_StepOrdering ==
    [][(calls' # calls /\ calls'[Len(calls')].inst # NoInstance) =>
        LET c == calls'[Len(calls')]
            i == c.inst
        IN  /\ i = cur
            /\ IsPrefix(StepsOf(calls', i), Steps)
            /\ StepName(c) = "exec_remote_restart" => inst[i].lifecycle = "Standby"
            /\ StepName(c) = "exit_standby" =>
                  (~response.raised /\ Strip(response.body) = Expected)
            /\ StepName(c) = "unprotect" =>
                  (inst[i].lifecycle = "InService" /\ inst[i].elb_health = "healthy")]_vars

\* One instance went through all five steps and a second one is on its way.
C14_Witness ==
    \E i \in Instances :
        /\ StepsOf(calls, i) = Steps
        /\ outcome[i] = "Success"
        /\ \E k \in Instances \ {i} : StepsOf(calls, k) = SubSeq(Steps, 1, 3)

\* Some request names instance i after the first n of the requests.
CalledAfter(cs, n, i) == \E j \in (n + 1)..Len(cs) : cs[j].inst = i

\* C15 (no automatic rollback): once the sequence of an instance has failed,
\* no step of the run issues a request for it, its lifecycle state and its
\* scale-in protection stay as the failing step left them, and its outcome
\* stays Failed.
C15_NoRollback ==
    [][\A i \in Instances :
          outcome[i] = "Failed" =>
              /\ outcome'[i] = "Failed"
              /\ ~CalledAfter(calls', Len(calls), i)
              /\ inst'[i].lifecycle = inst[i].lifecycle
              /\ inst'[i].protected = inst[i].protected]_vars

\* The sequence of an instance failed after it entered standby; the run went
\* on to the end and left it in Standby and protected.
C15_Witness ==
    \E i \in Instances :
        /\ outcome[i] = "Failed"
        /\ inst[i].lifecycle = "Standby"
        /\ inst[i].protected
        /\ pc = "done"
        /\ \E k \in Instances \ {i} : outcome[k] = "Success"

\* C16 (capacity bounds under a concurrent autoscaler): whatever the
\* autoscaler does between the steps of the run, an enter-standby request
\* that asks for the decrement of the desired capacity is never submitted
\* while the desired capacity of the group equals its minimum.
C16_NoDecrementAtMin ==
    [][(pc = "enter_standby" /\ calls' # calls /\ calls'[Len(calls')].flag) =>
          asg[as_group_name].DesiredCapacity > asg[as_group_name].MinSize]_vars

\* C17 (idempotent restoration): a second restoration in sequence after the
\* first issues no request, the ledger being empty, and changes no desired
\* capacity.
C17_SecondRestoreIsNoOp ==
    [][(restores = 2 /\ scalings' = scalings) =>
          (calls' = calls /\ asg' = asg)]_vars

\* C18 (termination): a fleet restart whose instances all keep running, so
\* that every awaited condition comes to hold, has exited only after it
\* processed every candidate and performed the restoration.
C18_ExitsAfterAllProcessed ==
    (RunEnded /\ idx >= 1 /\ \A i \in Instances : inst[i].state = "running") =>
        (pc = "done" /\ idx > Len(to_restart) /\ restores = 1)

\* C19 (protected while out of rotation): an instance the run asked to enter
\* standby has scale-in protection for as long as it is not back InService
\* and healthy; the protection request comes before the enter-standby
\* request, and the protection is gone only from an instance whose sequence
\* completed, never from one whose sequence failed part-way.
C19_ProtectedOutOfRotation ==
    \A i \in Instances :
        /\ OutOfRotation(i) => inst[i].protected
        /\ \A k \in 1..Len(calls) :
              (calls[k].inst = i /\ calls[k].op = "enter_standby") =>
                  \E j \in 1..(k - 1) :
                      /\ calls[j].inst = i
                      /\ calls[j].op = "set_instance_protection"
                      /\ calls[j].flag
        /\ (EnteredStandby(i) /\ ~inst[i].protected) => outcome[i] = "Success"

\* The sequence of an instance failed while it was in Standby; it is still
\* protected while the next instance is on its way into standby.
C19_Witness ==
    \E i \in Instances :
        /\ outcome[i] = "Failed"
        /\ OutOfRotation(i)
        /\ inst[i].lifecycle = "Standby"
        /\ inst[i].protected
        /\ cur # i
        /\ pc = "wait_standby"

\* C20 (ledger consumed by restart_one): when restart_one has returned and
\* nobody else changed a group, every group its ledger holds has the desired
\* capacity the ledger recorded for it.
C20_LedgerRestoredOnReturn ==
    (command = "restart_one" /\ pc = "returned" /\ scalings = 0) =>
        \A j \in 1..Len(modified_groups) :
            asg[modified_groups[j].k].DesiredCapacity = modified_groups[j].v

\* ------------------------------------------------------------------ C21
\* C21 (update message cleared on every exit): a fleet restart run that has
\* ended, by its exit or by an error that left the command, has left the
\* update message empty.
C21_MessageClearedOnExit ==
    RunEnded => motd = ""

====
